---- MODULE Spec2Model ----
(***************************************************************************)
(* Model of the B-tree of src/btree.h (class Btree<T> and its nested class *)
(* Node).  Nodes live in a heap indexed by node identifiers, the way the   *)
(* code holds them behind shared_ptr handles; keys are integers.  Indices  *)
(* passed between operators are 0-based, as in the code.                    *)
(***************************************************************************)
EXTENDS Integers, Naturals, Sequences, FiniteSets, TLC

\* ---------------------------------------------------------------- bounds
\* Keys offered to the public operations are 1..MaxKey.
MaxKey == 7
\* Largest minimum degree a tree is constructed with.
MaxDegree == 3
\* insert of a stored key is offered while the size counter exceeds the
\* number of stored keys by less than this.
MaxDup == 2
\* Number of keys a tree is filled with before removes are explored.
MaxFill == 10

Keys == 1..MaxKey
\* Values a read outside a vector's elements may yield.  Whatever word the
\* build finds there, the code only compares it with the key of the call:
\* the set holds a value below every key offered, every key offered, and a
\* value above every key offered (under either caller).
Garbage == 0..((IF MaxFill > MaxKey THEN MaxFill ELSE MaxKey) + 1)

\* ------------------------------------------------------------- variables
VARIABLES
  degree,     \* Btree::degree
  nodes,      \* the Node objects alive, by identifier
  root,       \* Btree::root
  num_keys,   \* Btree::num_keys
  last,       \* the last public call: operation, argument, outcome and the
              \* record of the helper calls it made
  pre,        \* the tree as it was when the last public call started
  driver      \* the caller (main() or a client filling a tree): the loop
              \* it is in, vals, and the values still to do

vars == <<degree, nodes, root, num_keys, last, pre, driver>>

\* ------------------------------------------------------- sequence helpers
At(seq, i) == seq[i + 1]
Front(seq) == seq[1]
Back(seq) == seq[Len(seq)]
SetAt(seq, i, v) == [seq EXCEPT ![i + 1] = v]
\* vector::emplace(begin() + i, v)
EmplaceAt(seq, i, v) == SubSeq(seq, 1, i) \o <<v>> \o SubSeq(seq, i + 1, Len(seq))
\* vector::erase(begin() + i)
EraseAt(seq, i) == SubSeq(seq, 1, i) \o SubSeq(seq, i + 2, Len(seq))
\* vector::resize(n) for n <= size()
Resize(seq, n) == SubSeq(seq, 1, n)

\* ------------------------------------------------------------ constants
MAX_KEYS_PER_NODE == 2 * degree - 1
MIN_KEYS_PER_NODE == degree - 1
MIN_KEYS_FOR_RM == degree
MAX_CHILDREN == MAX_KEYS_PER_NODE + 1

\* ----------------------------------------------------------------- Node
\* Variant of Node: the constructor ignores _is_leaf and flags every node
\* as a leaf.
Node_AlwaysLeaf(_is_leaf) == [leaf_status |-> TRUE, keys |-> <<>>, children |-> <<>>]

Node(_is_leaf) == [leaf_status |-> _is_leaf, keys |-> <<>>, children |-> <<>>]

\* Node::get_num_keys, "assert(keys.size() <= MAX_KEYS)": the assert holds.
WithinMaxKeys(n) == Len(n.keys) <= MAX_KEYS_PER_NODE

\* Node::get_num_keys: the number of keys of the node, or "assert" when the
\* node holds more than MAX_KEYS keys, the assert fails and the process
\* aborts.  Every operator below that calls it on a node aborts first when
\* WithinMaxKeys fails of that node.
get_num_keys(n) == IF WithinMaxKeys(n) THEN Len(n.keys) ELSE "assert"
is_leaf(n) == n.leaf_status

\* Variant of is_full: a node counts as full only beyond its capacity.
is_full_OffByOne(n) ==
  IF WithinMaxKeys(n) THEN get_num_keys(n) > MAX_KEYS_PER_NODE ELSE "assert"

\* Node::is_full: whether the node holds MAX_KEYS keys, or "assert" when
\* the assert of get_num_keys, called by the assert of is_full, fails.
is_full(n) ==
  IF WithinMaxKeys(n) THEN get_num_keys(n) = MAX_KEYS_PER_NODE ELSE "assert"

\* The handle a "new Node" yields: the lowest identifier not alive.
NewId(h) ==
  CHOOSE i \in 1..(Cardinality(DOMAIN h) + 1) :
    /\ i \notin DOMAIN h
    /\ \A j \in 1..(i - 1) : j \in DOMAIN h

\* A running operation: the heap, the root handle and how far it got.
\* status is "ok", "out_of_range" (std::out_of_range thrown) or "assert"
\* (an assert failed and the process aborted).
Abort(s) == [s EXCEPT !.status = "assert"]
Throw(s) == [s EXCEPT !.status = "out_of_range"]

\* The record of what an operation did on the way: each call of a recursive
\* helper on node nd, and each read of keys.back() / keys.front() in
\* _remove, with the number of keys nd held and whether nd was the root at
\* that moment.
Note(s, what, nd) ==
  [s EXCEPT !.trace = Append(@, [fn |-> what,
                                 num_keys |-> Len(s.nodes[nd].keys),
                                 is_root |-> nd = s.root])]

\* Number of leading keys the scan of _vacant_insert_key_in_node passes
\* before it stops: the keys smaller than key.
RECURSIVE ScanPos(_, _, _)
ScanPos(keys, key, i) ==
  IF i = Len(keys) THEN i
  ELSE IF At(keys, i) > key THEN i
  ELSE IF At(keys, i) = key THEN i
  ELSE ScanPos(keys, key, i + 1)

\* Variant of InsertKeyInNode: a new key is appended instead of being placed
\* in order.
InsertKeyInNode_Append(keys, key) ==
  LET p == ScanPos(keys, key, 0) IN
  IF p < Len(keys) /\ At(keys, p) = key
    THEN [keys |-> SetAt(keys, p, key), index |-> Len(keys) - p]
    ELSE [keys |-> Append(keys, key), index |-> 1]

\* Node::_vacant_insert_key_in_node, on a key sequence: the new keys and
\* the returned index, std::distance(it, keys.end()).
InsertKeyInNode(keys, key) ==
  LET p == ScanPos(keys, key, 0) IN
  IF p = Len(keys) \/ At(keys, p) > key
    THEN [keys |-> EmplaceAt(keys, p, key), index |-> (Len(keys) + 1) - p]
    ELSE [keys |-> SetAt(keys, p, key), index |-> Len(keys) - p]

\* The state _vacant_insert_key_in_node leaves on node nd, with the call put
\* on record: the key, the keys before and after, and the value returned.
KeyNote(s, nd, key, r) ==
  [s EXCEPT !.nodes[nd].keys = r.keys,
            !.trace = Append(@, [fn |-> "_vacant_insert_key_in_node",
                                 num_keys |-> Len(s.nodes[nd].keys),
                                 is_root |-> nd = s.root,
                                 key |-> key,
                                 before |-> s.nodes[nd].keys,
                                 after |-> r.keys,
                                 index |-> r.index])]

_vacant_insert_key_in_node(s, nd, key) ==
  LET n == s.nodes[nd] IN
  IF ~(/\ WithinMaxKeys(n)
       /\ MAX_KEYS_PER_NODE > get_num_keys(n))
    THEN Abort(s)
  ELSE KeyNote(s, nd, key, InsertKeyInNode(n.keys, key))

\* Variant of CopyKeys: the copy starts one key early, at the median, and
\* stops one key early.
RECURSIVE CopyKeys_OneEarly(_, _, _, _)
CopyKeys_OneEarly(s, src, from, c2) ==
  IF s.status # "ok" \/ from >= Len(src) THEN s
  ELSE CopyKeys_OneEarly(_vacant_insert_key_in_node(s, c2, At(src, from - 1)),
                         src, from + 1, c2)

\* The loop of _vacant_split_child that copies keys[from..] of c1, src, into
\* c2: one call of c2->_vacant_insert_key_in_node per key.
RECURSIVE CopyKeys(_, _, _, _)
CopyKeys(s, src, from, c2) ==
  IF s.status # "ok" \/ from >= Len(src) THEN s
  ELSE CopyKeys(_vacant_insert_key_in_node(s, c2, At(src, from)),
                src, from + 1, c2)

\* Variant of NewSibling: the new node is created as a leaf whatever c1 is.
NewSibling_Leaf(y) == Node(TRUE)

\* The node c2 of _vacant_split_child as allocated: a new Node of the leaf
\* status of c1.
NewSibling(y) == Node(y.leaf_status)

\* Variant of CopyChildren: the copy starts one child early.
CopyChildren_OneEarly(cs) == SubSeq(cs, degree, MAX_CHILDREN - 1)

\* The loop of _vacant_split_child that copies children[degree..] of c1 into
\* c2.
CopyChildren(cs) == SubSeq(cs, degree + 1, MAX_CHILDREN)

\* Variant of KeepChildren: c1 is left with its upper children, the ones
\* copied into c2.
KeepChildren_Upper(cs) == SubSeq(cs, degree + 1, MAX_CHILDREN)

\* _vacant_split_child, "c1->children.resize(degree)": c1 keeps its first
\* degree children.
KeepChildren(cs) == Resize(cs, degree)

\* The state _vacant_split_child leaves, with the call put on record: the
\* parent n and the child y as they were, and the parent, the child and the
\* new sibling as they are.
SplitNote(s, was, h, nd, c_idx, c1, c2) ==
  [s EXCEPT !.nodes = h,
            !.trace = Append(@, [fn |-> "_vacant_split_child",
                                 num_keys |-> Len(was[nd].keys),
                                 is_root |-> nd = s.root,
                                 c_idx |-> c_idx, c1 |-> c1, c2 |-> c2,
                                 n |-> was[nd], y |-> was[c1],
                                 n2 |-> h[nd], y2 |-> h[c1], z |-> h[c2]])]

_vacant_split_child(s, nd, c_idx) ==
  LET n == s.nodes[nd] IN
  IF ~(/\ WithinMaxKeys(n)
       /\ MAX_KEYS_PER_NODE > get_num_keys(n)
       /\ Len(n.children) > c_idx
       /\ WithinMaxKeys(s.nodes[At(n.children, c_idx)])
       /\ is_full(s.nodes[At(n.children, c_idx)])
       /\ (get_num_keys(n) = Len(n.children) - 1 \/ is_leaf(n)))
    THEN Abort(s)
  ELSE
    LET c1 == At(n.children, c_idx)
        c2 == NewId(s.nodes)
        y == s.nodes[c1]
        s1 == [s EXCEPT !.nodes = (c2 :> NewSibling(y)) @@ s.nodes]
        s2 == CopyKeys(s1, y.keys, degree, c2)
    IN
    IF s2.status # "ok" THEN s2
    ELSE
      LET zchildren == IF ~is_leaf(y) THEN CopyChildren(y.children) ELSE <<>>
          s3 == [s2 EXCEPT !.nodes[c2].children = zchildren]
          s4 == _vacant_insert_key_in_node(s3, nd, At(y.keys, degree - 1))
      IN
      IF s4.status # "ok" THEN s4
      ELSE
        LET pkeys == s4.nodes[nd].keys
            pchildren == EmplaceAt(n.children, c_idx + 1, c2)
            z == s4.nodes[c2]
            y2 == [y EXCEPT !.keys = Resize(y.keys, degree - 1),
                            !.children = IF ~is_leaf(y)
                                           THEN KeepChildren(y.children)
                                           ELSE y.children]
            h == [i \in DOMAIN s4.nodes |->
                    IF i = nd
                      THEN [n EXCEPT !.keys = pkeys, !.children = pchildren]
                    ELSE IF i = c1 THEN y2
                    ELSE s4.nodes[i]]
        IN
        IF ~(/\ Len(pkeys) <= MAX_KEYS_PER_NODE
             /\ Len(pkeys) = Len(pchildren) - 1
             /\ WithinMaxKeys(y2)
             /\ get_num_keys(y2) = degree - 1
             /\ (Len(y2.children) = degree \/ is_leaf(y2))
             /\ WithinMaxKeys(z)
             /\ get_num_keys(z) = degree - 1
             /\ (Len(z.children) = degree \/ is_leaf(z))
             /\ c1 = At(pchildren, c_idx)
             /\ c2 = At(pchildren, c_idx + 1))
          THEN Abort(SplitNote(s4, s.nodes, h, nd, c_idx, c1, c2))
        ELSE SplitNote(s4, s.nodes, h, nd, c_idx, c1, c2)

\* ---------------------------------------------------------------- insert
_is_duplicate(key, n) == \E i \in 1..Len(n.keys) : n.keys[i] = key

\* The child index _vacant_insert and _remove compute for a key that is
\* not in a node with keys `keys`.
RECURSIVE WhileIdx(_, _, _)
WhileIdx(keys, key, idx) ==
  IF idx < Len(keys) /\ key > At(keys, idx)
    THEN WhileIdx(keys, key, idx + 1)
    ELSE idx

\* Variant of DescendIdx: a key above all keys of the node goes to the child
\* at the index of the last key instead of the last child.
DescendIdx_LastKey(keys, key) ==
  IF key > Back(keys) THEN Len(keys) - 1
  ELSE IF key >= Front(keys) THEN WhileIdx(keys, key, 0)
  ELSE 0

DescendIdx(keys, key) ==
  IF key > Back(keys) THEN Len(keys)
  ELSE IF key >= Front(keys) THEN WhileIdx(keys, key, 0)
  ELSE 0

RECURSIVE _vacant_insert(_, _, _)
_vacant_insert(s0, key, nd) ==
  LET s == Note(s0, "_vacant_insert", nd)
      n == s.nodes[nd]
  IN
  IF ~(/\ WithinMaxKeys(n)
       /\ ~is_full(n)
       /\ (is_leaf(n) \/ get_num_keys(n) + 1 = Len(n.children)))
    THEN Abort(s)
  ELSE IF is_leaf(n) THEN _vacant_insert_key_in_node(s, nd, key)
  ELSE IF _is_duplicate(key, n) THEN s
  ELSE
    LET idx == DescendIdx(n.keys, key)
        nxt == At(n.children, idx)
    IN
    IF ~WithinMaxKeys(s.nodes[nxt]) THEN Abort(s)
    ELSE IF ~is_full(s.nodes[nxt]) THEN _vacant_insert(s, key, nxt)
    ELSE
      LET s2 == _vacant_split_child(s, nd, idx) IN
      IF s2.status # "ok" THEN s2
      ELSE
        LET n2 == s2.nodes[nd] IN
        IF key < At(n2.keys, idx)
          THEN _vacant_insert(s2, key, At(n2.children, idx))
        ELSE IF key = At(n2.keys, idx) THEN s2
        ELSE _vacant_insert(s2, key, At(n2.children, idx + 1))

\* Btree::insert up to, and not including, num_keys++.
insert(s, key) ==
  LET r == s.nodes[s.root] IN
  IF ~(/\ WithinMaxKeys(r)
       /\ get_num_keys(r) <= MAX_KEYS_PER_NODE
       /\ (is_leaf(r) \/ Len(r.children) - 1 = get_num_keys(r)))
    THEN Abort(s)
  ELSE IF is_full(r) THEN
    LET nnode == NewId(s.nodes)
        s1 == [s EXCEPT !.nodes = (nnode :> [Node(FALSE) EXCEPT
                                              !.children = <<s.root>>])
                                  @@ s.nodes,
                        !.root = nnode]
        s2 == _vacant_split_child(s1, nnode, 0)
    IN IF s2.status # "ok" THEN s2 ELSE _vacant_insert(s2, key, nnode)
  ELSE _vacant_insert(s, key, s.root)

\* ---------------------------------------------------------------- search
\* Btree::_find_home_node: the node and key index the search settles on.
RECURSIVE FindScan(_, _, _, _)
RECURSIVE _find_home_node(_, _, _)
FindScan(h, key, local_root, i) ==
  LET n == h[local_root] IN
  IF i = Len(n.keys) THEN
    IF is_leaf(n) THEN [node |-> local_root, index |-> 0]
    ELSE _find_home_node(h, key, Back(n.children))
  ELSE IF At(n.keys, i) = key THEN [node |-> local_root, index |-> i]
  ELSE IF At(n.keys, i) > key THEN
    IF is_leaf(n) THEN [node |-> local_root, index |-> 0]
    ELSE _find_home_node(h, key, At(n.children, i))
  ELSE FindScan(h, key, local_root, i + 1)

_find_home_node(h, key, local_root) == FindScan(h, key, local_root, 0)

\* Variant of search: the key found at the home position is returned without
\* being compared with the requested key.
search_NoCompare(s, key) ==
  LET results == _find_home_node(s.nodes, key, s.root)
      ks == s.nodes[results.node].keys
  IN
  IF results.index >= Len(ks) THEN [status |-> "out_of_range", ret |-> 0]
  ELSE [status |-> "ok", ret |-> At(ks, results.index)]

\* Btree::search: the outcome and, when it returns, the returned key.
search(s, key) ==
  LET results == _find_home_node(s.nodes, key, s.root)
      ks == s.nodes[results.node].keys
  IN
  IF results.index >= Len(ks) THEN [status |-> "out_of_range", ret |-> 0]
  ELSE IF At(ks, results.index) = key
    THEN [status |-> "ok", ret |-> At(ks, results.index)]
    ELSE [status |-> "out_of_range", ret |-> 0]

\* ---------------------------------------------------------------- remove
is_root(s, nd) == nd = s.root

\* The two assertions of Btree::_check_ordering.
_check_ordering(s, nd) ==
  LET n == s.nodes[nd] IN
  /\ is_leaf(n) \/ Front(n.keys) > Back(s.nodes[Front(n.children)].keys)
  /\ is_leaf(n) \/ Back(n.keys) < Front(s.nodes[Back(n.children)].keys)

\* Variant of _fix_empty_root: an internal root left without keys stays the
\* root.
_fix_empty_root_Keep(s) ==
  LET r == s.nodes[s.root] IN
  IF ~(/\ WithinMaxKeys(r)
       /\ (get_num_keys(r) = Len(r.children) - 1 \/ is_leaf(r)))
    THEN Abort(s)
  ELSE s

_fix_empty_root(s) ==
  LET r == s.nodes[s.root] IN
  IF ~(/\ WithinMaxKeys(r)
       /\ (get_num_keys(r) = Len(r.children) - 1 \/ is_leaf(r)))
    THEN Abort(s)
  ELSE IF get_num_keys(r) = 0 /\ ~is_leaf(r)
    THEN [s EXCEPT !.root = At(r.children, 0)]
    ELSE s

\* Index of the first key of the scan of _rm_key_from_node that equals key,
\* or -1 when the scan ends (a larger key, or the end) without finding it.
RECURSIVE RmScan(_, _, _)
RmScan(keys, key, i) ==
  IF i >= Len(keys) THEN -1
  ELSE IF At(keys, i) = key THEN i
  ELSE IF At(keys, i) > key THEN -1
  ELSE RmScan(keys, key, i + 1)

_rm_key_from_node(s, key, nd) ==
  LET n == s.nodes[nd] IN
  IF ~(/\ WithinMaxKeys(n)
       /\ (get_num_keys(n) >= MIN_KEYS_FOR_RM \/ is_root(s, nd))
       /\ (get_num_keys(n) = Len(n.children) - 1 \/ is_leaf(n)))
    THEN Abort(s)
  ELSE
    LET i == RmScan(n.keys, key, 0) IN
    IF i >= 0 THEN [s EXCEPT !.nodes[nd].keys = EraseAt(n.keys, i)]
    ELSE Throw(s)

\* The state _merge_nodes leaves, with the call put on record: the two nodes
\* as they were, the key, and nd_y as it is.
MergeNote(s, nd_y, key, nd_z, y2) ==
  [s EXCEPT !.nodes[nd_y] = y2,
            !.trace = Append(@, [fn |-> "_merge_nodes",
                                 num_keys |-> Len(s.nodes[nd_y].keys),
                                 is_root |-> nd_y = s.root,
                                 nd_y |-> nd_y, nd_z |-> nd_z, key |-> key,
                                 y |-> s.nodes[nd_y], z |-> s.nodes[nd_z],
                                 y2 |-> y2])]

\* Variant of Unlink: the child left of the key is erased from the children
\* of nd instead of the child right of it.
Unlink_LeftChild(s, nd, kidx) ==
  LET n == s.nodes[nd]
      n2 == [n EXCEPT !.children = EraseAt(n.children, kidx),
                      !.keys = EraseAt(n.keys, kidx)]
  IN [s EXCEPT !.nodes[nd] = n2,
               !.trace = Append(@, [fn |-> "unlink",
                                    num_keys |-> Len(n.keys),
                                    is_root |-> nd = s.root,
                                    nd |-> nd, kidx |-> kidx,
                                    n |-> n, n2 |-> n2])]

\* The two erase calls before every _merge_nodes: nd loses its key at kidx and
\* its child right of that key; put on record with nd as it was and as it is.
Unlink(s, nd, kidx) ==
  LET n == s.nodes[nd]
      n2 == [n EXCEPT !.children = EraseAt(n.children, kidx + 1),
                      !.keys = EraseAt(n.keys, kidx)]
  IN [s EXCEPT !.nodes[nd] = n2,
               !.trace = Append(@, [fn |-> "unlink",
                                    num_keys |-> Len(n.keys),
                                    is_root |-> nd = s.root,
                                    nd |-> nd, kidx |-> kidx,
                                    n |-> n, n2 |-> n2])]

\* Variant of _merge_nodes: the separating key is not appended to nd_y.
_merge_nodes_NoSeparator(s, nd_y, key, nd_z) ==
  LET y == s.nodes[nd_y]
      z == s.nodes[nd_z]
  IN
  IF ~(/\ WithinMaxKeys(y)
       /\ get_num_keys(y) = degree - 1
       /\ WithinMaxKeys(z)
       /\ get_num_keys(z) = degree - 1
       /\ (get_num_keys(z) = Len(z.children) - 1 \/ is_leaf(z))
       /\ (get_num_keys(y) = Len(y.children) - 1 \/ is_leaf(y))
       /\ Back(y.keys) < key
       /\ key < Front(z.keys)
       /\ _check_ordering(s, nd_y)
       /\ _check_ordering(s, nd_z))
    THEN Abort(s)
  ELSE
    LET s2 == [s EXCEPT !.nodes[nd_y].keys = y.keys \o z.keys,
                        !.nodes[nd_y].children = y.children \o z.children]
    IN IF ~_check_ordering(s2, nd_y) THEN Abort(s2) ELSE s2

_merge_nodes(s, nd_y, key, nd_z) ==
  LET y == s.nodes[nd_y]
      z == s.nodes[nd_z]
  IN
  IF ~(/\ WithinMaxKeys(y)
       /\ get_num_keys(y) = degree - 1
       /\ WithinMaxKeys(z)
       /\ get_num_keys(z) = degree - 1
       /\ (get_num_keys(z) = Len(z.children) - 1 \/ is_leaf(z))
       /\ (get_num_keys(y) = Len(y.children) - 1 \/ is_leaf(y))
       /\ Back(y.keys) < key
       /\ key < Front(z.keys)
       /\ _check_ordering(s, nd_y)
       /\ _check_ordering(s, nd_z))
    THEN Abort(s)
  ELSE
    LET s2 == MergeNote(s, nd_y, key, nd_z,
                        [y EXCEPT !.keys = (y.keys \o <<key>>) \o z.keys,
                                  !.children = y.children \o z.children])
    IN IF ~_check_ordering(s2, nd_y) THEN Abort(s2) ELSE s2

\* Variant of _get_predecessor: the first key of the rightmost leaf is taken.
RECURSIVE _get_predecessor_Front(_, _)
_get_predecessor_Front(h, nd) ==
  IF is_leaf(h[nd]) THEN Front(h[nd].keys)
  ELSE _get_predecessor_Front(h, Back(h[nd].children))

RECURSIVE _get_predecessor(_, _)
_get_predecessor(h, nd) ==
  IF is_leaf(h[nd]) THEN Back(h[nd].keys)
  ELSE _get_predecessor(h, Back(h[nd].children))

\* Variant of _get_successor: the first key of the node the search starts at
\* is taken, without going down to a leaf.
_get_successor_NoDescent(h, nd) == Front(h[nd].keys)

RECURSIVE _get_successor(_, _)
_get_successor(h, nd) ==
  IF is_leaf(h[nd]) THEN Front(h[nd].keys)
  ELSE _get_successor(h, Front(h[nd].children))

\* Variant of CanLend: a sibling with degree-1 keys is taken to lend too.
CanLend_OffByOne(n) == get_num_keys(n) >= degree - 1

\* The test of _rm_from_internal_node_without_key for a sibling to borrow
\* from: it has at least degree keys.
CanLend(n) == get_num_keys(n) >= degree

\* Variant of LentChild: the first child of the left sibling moves over.
LentChild_Front(l) == Front(l.children)

\* _rm_from_internal_node_without_key, "tmp_child =
\* lsibling->children.back()": the child an internal left sibling lends.
LentChild(l) == Back(l.children)

\* A borrow of _rm_from_internal_node_without_key put on record: the side,
\* and nd, children[idx] and the lending sibling as the borrow leaves them.
BorrowNote(s, side, idx, nd) ==
  LET n == s.nodes[nd]
      sib == At(n.children, IF side = "left" THEN idx - 1 ELSE idx + 1)
  IN [s EXCEPT !.trace = Append(@, [fn |-> "borrow",
                                    num_keys |-> Len(n.keys),
                                    is_root |-> nd = s.root,
                                    side |-> side, idx |-> idx, nd |-> nd,
                                    n2 |-> n,
                                    c2 |-> s.nodes[At(n.children, idx)],
                                    sib2 |-> s.nodes[sib]])]

\* Variant of BorrowFromLeft: the key moved up is not erased from the left
\* sibling.
BorrowFromLeft_KeepKey(s, idx, nd) ==
  LET n == s.nodes[nd]
      cn == At(n.children, idx)
      lsibling == At(n.children, idx - 1)
      c == s.nodes[cn]
      l == s.nodes[lsibling]
      tmp_key == At(n.keys, idx - 1)
  IN [s EXCEPT
        !.nodes[nd].keys = SetAt(n.keys, idx - 1, Back(l.keys)),
        !.nodes[cn].keys = EmplaceAt(c.keys, 0, tmp_key),
        !.nodes[cn].children =
           IF ~is_leaf(l) THEN EmplaceAt(c.children, 0, LentChild(l))
           ELSE c.children,
        !.nodes[lsibling].children =
           IF ~is_leaf(l) THEN EraseAt(l.children, Len(l.children) - 1)
           ELSE l.children]

\* _rm_from_internal_node_without_key, the borrow from the left sibling:
\* the key of nd left of children[idx] moves down to the front of
\* children[idx], the last key of the left sibling moves up, and the last
\* child of an internal left sibling moves over.
BorrowFromLeft(s, idx, nd) ==
  LET n == s.nodes[nd]
      cn == At(n.children, idx)
      lsibling == At(n.children, idx - 1)
      c == s.nodes[cn]
      l == s.nodes[lsibling]
      tmp_key == At(n.keys, idx - 1)
  IN [s EXCEPT
        !.nodes[nd].keys = SetAt(n.keys, idx - 1, Back(l.keys)),
        !.nodes[cn].keys = EmplaceAt(c.keys, 0, tmp_key),
        !.nodes[cn].children =
           IF ~is_leaf(l) THEN EmplaceAt(c.children, 0, LentChild(l))
           ELSE c.children,
        !.nodes[lsibling].keys = EraseAt(l.keys, Len(l.keys) - 1),
        !.nodes[lsibling].children =
           IF ~is_leaf(l) THEN EraseAt(l.children, Len(l.children) - 1)
           ELSE l.children]

\* Variant of BorrowFromRight: the key moved up is not erased from the
\* right sibling.
BorrowFromRight_KeepKey(s, idx, nd) ==
  LET n == s.nodes[nd]
      cn == At(n.children, idx)
      rsibling == At(n.children, idx + 1)
      c == s.nodes[cn]
      r == s.nodes[rsibling]
      tmp_key == At(n.keys, idx)
  IN [s EXCEPT
        !.nodes[nd].keys = SetAt(n.keys, idx, Front(r.keys)),
        !.nodes[cn].keys = Append(c.keys, tmp_key),
        !.nodes[cn].children =
           IF ~is_leaf(r) THEN Append(c.children, Front(r.children))
           ELSE c.children,
        !.nodes[rsibling].children =
           IF ~is_leaf(r) THEN EraseAt(r.children, 0)
           ELSE r.children]

\* _rm_from_internal_node_without_key, the borrow from the right sibling.
BorrowFromRight(s, idx, nd) ==
  LET n == s.nodes[nd]
      cn == At(n.children, idx)
      rsibling == At(n.children, idx + 1)
      c == s.nodes[cn]
      r == s.nodes[rsibling]
      tmp_key == At(n.keys, idx)
  IN [s EXCEPT
        !.nodes[nd].keys = SetAt(n.keys, idx, Front(r.keys)),
        !.nodes[cn].keys = Append(c.keys, tmp_key),
        !.nodes[cn].children =
           IF ~is_leaf(r) THEN Append(c.children, Front(r.children))
           ELSE c.children,
        !.nodes[rsibling].keys = EraseAt(r.keys, 0),
        !.nodes[rsibling].children =
           IF ~is_leaf(r) THEN EraseAt(r.children, 0)
           ELSE r.children]

\* Variant of HasSpare: a child with exactly degree-1 keys is descended into
\* as it is.
HasSpare_OffByOne(c) == get_num_keys(c) >= degree - 1

\* _rm_from_internal_node_without_key, "cn->get_num_keys() > (degree - 1)":
\* the child to descend into needs no thickening.
HasSpare(c) == get_num_keys(c) > degree - 1

\* Variant of CanGive: a child with exactly degree keys does not count.
CanGive_OffByOne(c) == get_num_keys(c) > degree

\* _rm_key_from_internal_node, "nd_y->get_num_keys() >= degree" and the same
\* test on nd_z: the child can give up its last or first key.
CanGive(c) == get_num_keys(c) >= degree

\* The call of _rm_key_from_internal_node or
\* _rm_from_internal_node_without_key on node nd with index idx, put on
\* record with nd, its children and all nodes as they are at the call.
CaseNote(s, fn, key, idx, nd) ==
  [s EXCEPT !.trace = Append(@, [fn |-> fn,
                                 num_keys |-> Len(s.nodes[nd].keys),
                                 is_root |-> nd = s.root,
                                 key |-> key, idx |-> idx, nd |-> nd,
                                 n |-> s.nodes[nd], heap |-> s.nodes,
                                 kids |-> [j \in 1..Len(s.nodes[nd].children)
                                             |-> s.nodes[s.nodes[nd].children[j]]]])]

RECURSIVE _remove(_, _, _, _)
RECURSIVE _rm_key_from_internal_node(_, _, _, _, _)
RECURSIVE _rm_from_internal_node_without_key(_, _, _, _, _)

\* What _remove reads as keys.back() / keys.front(): on a node without keys
\* the read is outside the vector's elements and yields g.back / g.front.
KeysBack(keys, g) == IF keys = <<>> THEN g.back ELSE Back(keys)
KeysFront(keys, g) == IF keys = <<>> THEN g.front ELSE Front(keys)

\* The first part of _remove, "determine the node to recursively drop into":
\* idx, home_nd (0 stands for a null handle) and whether a children.at()
\* or the leaf test threw std::out_of_range.
Locate(s, key, nd, g) ==
  LET n == s.nodes[nd]
      nk == get_num_keys(n)
  IN
  IF key > KeysBack(n.keys, g) THEN
    IF is_leaf(n) THEN [idx |-> nk, home_nd |-> 0, thrown |-> TRUE]
    ELSE [idx |-> nk, home_nd |-> At(n.children, nk), thrown |-> FALSE]
  ELSE IF key >= KeysFront(n.keys, g) THEN
    LET idx == WhileIdx(n.keys, key, 0) IN
    IF idx < nk /\ At(n.keys, idx) = key
      THEN [idx |-> idx, home_nd |-> nd, thrown |-> FALSE]
    ELSE IF idx >= Len(n.children)
      THEN [idx |-> idx, home_nd |-> 0, thrown |-> TRUE]
    ELSE [idx |-> idx, home_nd |-> At(n.children, idx), thrown |-> FALSE]
  ELSE [idx |-> 0, home_nd |-> 0, thrown |-> FALSE]

\* The call of _remove with key on node nd, put on record.
CallNote(s, fn, key, nd) ==
  [s EXCEPT !.trace = Append(@, [fn |-> fn,
                                 num_keys |-> Len(s.nodes[nd].keys),
                                 is_root |-> nd = s.root,
                                 key |-> key, nd |-> nd])]

\* The reads of lines 758 and 766: keys.back() always, keys.front() when the
\* first comparison failed.
Reads(s, key, nd, g) ==
  LET s2 == Note(s, "keys.back", nd) IN
  IF key > KeysBack(s.nodes[nd].keys, g) THEN s2
  ELSE Note(s2, "keys.front", nd)

_remove(s0, key, nd, g) ==
  LET s1 == CallNote(s0, "_remove", key, nd)
      n == s1.nodes[nd]
  IN
  IF ~(/\ WithinMaxKeys(n)
       /\ (get_num_keys(n) >= MIN_KEYS_PER_NODE \/ is_root(s1, nd))
       /\ (get_num_keys(n) = Len(n.children) - 1 \/ is_leaf(n)))
    THEN Abort(s1)
  ELSE
    LET s == Reads(s1, key, nd, g)
        loc == Locate(s, key, nd, g)
    IN
    IF loc.thrown THEN Throw(s)
    ELSE IF ~_check_ordering(s, nd) THEN Abort(s)
    ELSE IF is_leaf(n) THEN
      IF loc.home_nd # nd THEN Throw(s)
      ELSE _rm_key_from_node(s, key, nd)
    ELSE IF nd = loc.home_nd THEN
      IF ~_check_ordering(s, loc.home_nd) THEN Abort(s)
      ELSE _rm_key_from_internal_node(s, key, loc.idx, loc.home_nd, g)
    ELSE
      IF ~_check_ordering(s, At(n.children, loc.idx)) THEN Abort(s)
      ELSE _rm_from_internal_node_without_key(s, key, loc.idx, nd, g)

_rm_key_from_internal_node(s0, key, idx, nd, g) ==
  LET s == CaseNote(s0, "_rm_key_from_internal_node", key, idx, nd)
      n == s.nodes[nd]
  IN
  IF ~(/\ WithinMaxKeys(n)
       /\ (get_num_keys(n) >= MIN_KEYS_FOR_RM \/ is_root(s, nd))
       /\ ~is_leaf(n)
       /\ idx <= get_num_keys(n) - 1
       /\ get_num_keys(n) = Len(n.children) - 1
       /\ _check_ordering(s, nd))
    THEN Abort(s)
  ELSE
    LET nd_y == At(n.children, idx)
        nd_z == At(n.children, idx + 1)
        y == s.nodes[nd_y]
        z == s.nodes[nd_z]
    IN
    IF ~WithinMaxKeys(y) THEN Abort(s)
    ELSE IF CanGive(y) THEN
      IF ~(At(n.keys, idx) > Back(y.keys)) THEN Abort(s)
      ELSE
        LET k == _get_predecessor(s.nodes, nd_y)
            s2 == [s EXCEPT !.nodes[nd].keys = SetAt(n.keys, idx, k)]
        IN IF ~_check_ordering(s2, nd_y) THEN Abort(s2)
           ELSE _remove(s2, k, nd_y, g)
    ELSE IF ~CanGive(y) /\ ~WithinMaxKeys(z) THEN Abort(s)
    ELSE IF ~CanGive(y) /\ CanGive(z) THEN
      IF ~(At(n.keys, idx) < Front(z.keys)) THEN Abort(s)
      ELSE
        LET k == _get_successor(s.nodes, nd_z)
            s2 == [s EXCEPT !.nodes[nd].keys = SetAt(n.keys, idx, k)]
        IN IF ~_check_ordering(s2, nd_z) THEN Abort(s2)
           ELSE _remove(s2, k, nd_z, g)
    ELSE
      IF ~(/\ Back(y.keys) < At(n.keys, idx)
           /\ At(n.keys, idx) < Front(z.keys))
        THEN Abort(s)
      ELSE
        LET tmp == At(n.keys, idx)
            s1 == IF is_root(s, nd) /\ get_num_keys(n) = 1
                    THEN [s EXCEPT !.root = nd_y] ELSE s
            s2 == Unlink(s1, nd, idx)
            s3 == _merge_nodes(s2, nd_y, tmp, nd_z)
        IN
        IF s3.status # "ok" THEN s3
        ELSE
          LET s4 == _fix_empty_root(s3) IN
          IF s4.status # "ok" THEN s4
          ELSE IF ~_check_ordering(s4, nd_y) THEN Abort(s4)
          ELSE _remove(s4, key, nd_y, g)

_rm_from_internal_node_without_key(s0, key, idx, nd, g) ==
  LET s == CaseNote(s0, "_rm_from_internal_node_without_key", key, idx, nd)
      n == s.nodes[nd]
  IN
  IF ~(/\ ~is_leaf(n)
       /\ idx < Len(n.children)
       /\ WithinMaxKeys(n)
       /\ (get_num_keys(n) >= MIN_KEYS_FOR_RM \/ is_root(s, nd))
       /\ get_num_keys(n) = Len(n.children) - 1
       /\ _check_ordering(s, nd))
    THEN Abort(s)
  ELSE
    LET cn == At(n.children, idx)
        lsibling == IF idx = 0 THEN 0 ELSE At(n.children, idx - 1)
        rsibling == IF idx = Len(n.children) - 1 THEN 0
                    ELSE At(n.children, idx + 1)
        c == s.nodes[cn]
    IN
    IF /\ lsibling # 0 /\ rsibling # 0
       /\ is_leaf(s.nodes[lsibling]) # is_leaf(s.nodes[rsibling])
      THEN Abort(s)
    ELSE IF ~WithinMaxKeys(c) THEN Abort(s)
    ELSE IF HasSpare(c) THEN
      IF ~_check_ordering(s, cn) THEN Abort(s)
      ELSE _remove(s, key, cn, g)
    ELSE IF lsibling # 0 /\ ~WithinMaxKeys(s.nodes[lsibling]) THEN Abort(s)
    ELSE IF lsibling # 0 /\ CanLend(s.nodes[lsibling]) THEN
      LET s2 == BorrowNote(BorrowFromLeft(s, idx, nd), "left", idx, nd) IN
      IF ~_check_ordering(s2, cn) THEN Abort(s2)
      ELSE _remove(s2, key, cn, g)
    ELSE IF rsibling # 0 /\ ~WithinMaxKeys(s.nodes[rsibling]) THEN Abort(s)
    ELSE IF rsibling # 0 /\ CanLend(s.nodes[rsibling]) THEN
      LET s2 == BorrowNote(BorrowFromRight(s, idx, nd), "right", idx, nd) IN
      IF ~_check_ordering(s2, cn) THEN Abort(s2)
      ELSE _remove(s2, key, cn, g)
    ELSE IF lsibling # 0 THEN
      LET tmp == At(n.keys, idx - 1)
          s2 == Unlink(s, nd, idx - 1)
          s3 == _merge_nodes(s2, lsibling, tmp, cn)
      IN
      IF s3.status # "ok" THEN s3
      ELSE
        LET s4 == _fix_empty_root(s3) IN
        IF s4.status # "ok" THEN s4
        ELSE IF ~_check_ordering(s4, lsibling) THEN Abort(s4)
        ELSE _remove(s4, key, lsibling, g)
    ELSE
      LET tmp == At(n.keys, idx)
          s2 == Unlink(s, nd, idx)
          s3 == _merge_nodes(s2, cn, tmp, rsibling)
      IN
      IF s3.status # "ok" THEN s3
      ELSE
        LET s4 == _fix_empty_root(s3) IN
        IF s4.status # "ok" THEN s4
        ELSE IF ~_check_ordering(s4, cn) THEN Abort(s4)
        ELSE _remove(s4, key, cn, g)

\* ------------------------------------------------------- public operations
\* The nodes some handle chain from nd still reaches; all other nodes are
\* released when the last shared_ptr to them goes out of scope.
RECURSIVE Reachable(_, _)
Reachable(h, nd) ==
  {nd} \cup UNION {Reachable(h, h[nd].children[i]) : i \in 1..Len(h[nd].children)}

RECURSIVE KeysUnder(_, _)
KeysUnder(h, nd) ==
  {h[nd].keys[i] : i \in 1..Len(h[nd].keys)}
    \cup UNION {KeysUnder(h, h[nd].children[i]) : i \in 1..Len(h[nd].children)}

Release(s) == [s EXCEPT !.nodes = [i \in Reachable(s.nodes, s.root) |-> s.nodes[i]]]

Current == [nodes |-> nodes, root |-> root, status |-> "ok", trace |-> <<>>]
Snapshot == [nodes |-> nodes, root |-> root, num_keys |-> num_keys]
Alive == last.status # "assert"

\* The calls are made by any caller, main() is not running.
NoDriver == [phase |-> "none", vals |-> {}, todo |-> {}]

\* Variant of Init: the constructor does not check the degree.
Init_NoAssert ==
  \E _min_degree \in 0..MaxDegree :
    /\ degree = _min_degree
    /\ nodes = (1 :> Node(TRUE))
    /\ root = 1
    /\ last = [op |-> "construct", key |-> 0, status |-> "ok", ret |-> 0,
               trace |-> <<>>]
    /\ num_keys = 0
    /\ pre = [nodes |-> <<>>, root |-> 0, num_keys |-> 0]
    /\ driver = NoDriver

\* Btree::Btree
Init ==
  \E _min_degree \in 0..MaxDegree :
    /\ degree = _min_degree
    /\ IF _min_degree >= 2
         THEN /\ nodes = (1 :> Node(TRUE))
              /\ root = 1
              /\ last = [op |-> "construct", key |-> 0, status |-> "ok", ret |-> 0,
                           trace |-> <<>>]
         ELSE /\ nodes = <<>>
              /\ root = 0
              /\ last = [op |-> "construct", key |-> 0, status |-> "assert", ret |-> 0,
                           trace |-> <<>>]
    /\ num_keys = 0
    /\ pre = [nodes |-> <<>>, root |-> 0, num_keys |-> 0]
    /\ driver = NoDriver

\* Btree::get_size
Call_get_size ==
  /\ Alive
  /\ last' = [op |-> "get_size", key |-> 0, status |-> "ok", ret |-> num_keys,
              trace |-> <<>>]
  /\ pre' = Snapshot
  /\ UNCHANGED <<degree, nodes, root, num_keys>>

\* Variant of Call_search: a search that misses goes down the tree the way
\* remove does, thickening the children on its path.
Call_search_Thickening(key) ==
  /\ Alive
  /\ \E r \in {search(Current, key)} :
     \E d \in {IF r.status = "ok" THEN Current
                ELSE Release(_remove(Current, key, root,
                                     [back |-> 0, front |-> 0]))} :
       /\ last' = [op |-> "search", key |-> key, status |-> r.status,
                   ret |-> r.ret, trace |-> <<>>]
       /\ nodes' = d.nodes
       /\ root' = d.root
  /\ pre' = Snapshot
  /\ UNCHANGED <<degree, num_keys>>

\* Btree::search
Call_search(key) ==
  /\ Alive
  /\ LET r == search(Current, key) IN
       last' = [op |-> "search", key |-> key, status |-> r.status, ret |-> r.ret,
                trace |-> <<>>]
  /\ pre' = Snapshot
  /\ UNCHANGED <<degree, nodes, root, num_keys>>

\* Btree::insert
Call_insert(key) ==
  /\ Alive
  /\ \E r \in {Release(insert(Current, key))} :
       /\ nodes' = r.nodes
       /\ root' = r.root
       /\ num_keys' = IF r.status = "ok" THEN num_keys + 1 ELSE num_keys
       /\ last' = [op |-> "insert", key |-> key, status |-> r.status, ret |-> 0,
                    trace |-> r.trace]
  /\ pre' = Snapshot
  /\ UNCHANGED degree

\* Btree::remove; g is what reads outside the elements of an empty key
\* vector yield.
Call_remove(key, g) ==
  /\ Alive
  /\ \E r1 \in {_remove(Current, key, root, g)} :
     \E r \in {Release(IF r1.status = "ok" THEN _fix_empty_root(r1) ELSE r1)} :
       /\ nodes' = r.nodes
       /\ root' = r.root
       /\ num_keys' = IF r1.status = "ok" THEN num_keys - 1 ELSE num_keys
       /\ last' = [op |-> "remove", key |-> key, status |-> r.status, ret |-> 0,
                    trace |-> r.trace]
  /\ pre' = Snapshot
  /\ UNCHANGED degree

OutsideReads ==
  IF Alive /\ nodes[root].keys = <<>>
    THEN [back : Garbage, front : Garbage]
    ELSE {[back |-> 0, front |-> 0]}

\* The public calls, made in any order by any caller.
GetSize == Call_get_size /\ UNCHANGED driver

Search(key) == Call_search(key) /\ UNCHANGED driver

Insert(key) ==
  /\ Alive
  /\ key \in KeysUnder(nodes, root) => num_keys < Cardinality(KeysUnder(nodes, root)) + MaxDup
  /\ Call_insert(key)
  /\ UNCHANGED driver

Remove(key, g) == Call_remove(key, g) /\ UNCHANGED driver

Next ==
  \/ GetSize
  \/ \E key \in Keys : Search(key)
  \/ \E key \in Keys : Insert(key)
  \/ \E key \in Keys : \E g \in OutsideReads : Remove(key, g)

Spec == Init /\ [][Next]_vars

\* ------------------------------------------------------------------ main
\* main(): a tree is constructed, a set vals of distinct values is chosen,
\* and three loops over vals insert, search and remove each value; then the
\* size is printed. The order of a loop is the iteration order of an
\* unordered_set: any order. An exception is not caught: after a call that
\* threw, main() makes no further call. main() constructs Btree<size_t>(2);
\* the loops are the same for every minimum degree, taken from 2..MaxDegree.
Loop(phase, vals) == [phase |-> phase, vals |-> vals, todo |-> vals]

\* The driver after the call on key: its loop goes on, or the loop `then`
\* starts.
AfterCall(key, then) ==
  IF driver.todo = {key} THEN Loop(then, driver.vals)
  ELSE [driver EXCEPT !.todo = @ \ {key}]

InitMain ==
  /\ \E _min_degree \in 2..MaxDegree :
       /\ degree = _min_degree
       /\ nodes = (1 :> Node(TRUE))
       /\ root = 1
       /\ last = [op |-> "construct", key |-> 0, status |-> "ok", ret |-> 0,
                  trace |-> <<>>]
       /\ num_keys = 0
       /\ pre = [nodes |-> <<>>, root |-> 0, num_keys |-> 0]
  /\ \E vals \in SUBSET Keys :
       driver = Loop(IF vals = {} THEN "print" ELSE "insert", vals)

MainInsert(key) ==
  /\ driver.phase = "insert" /\ key \in driver.todo
  /\ last.status = "ok"
  /\ Call_insert(key)
  /\ driver' = AfterCall(key, "search")

MainSearch(key) ==
  /\ driver.phase = "search" /\ key \in driver.todo
  /\ last.status = "ok"
  /\ Call_search(key)
  /\ driver' = AfterCall(key, "remove")

MainRemove(key) ==
  /\ driver.phase = "remove" /\ key \in driver.todo
  /\ last.status = "ok"
  /\ \E g \in OutsideReads : Call_remove(key, g)
  /\ driver' = AfterCall(key, "print")

MainPrintSize ==
  /\ driver.phase = "print"
  /\ last.status = "ok"
  /\ Call_get_size
  /\ driver' = Loop("end", driver.vals)

NextMain ==
  \/ \E key \in Keys : MainInsert(key)
  \/ \E key \in Keys : MainSearch(key)
  \/ \E key \in Keys : MainRemove(key)
  \/ MainPrintSize

SpecMain == InitMain /\ [][NextMain]_vars

\* ---------------------------------------------------------- filled trees
\* A client of the public interface, main() is not running: it constructs a
\* tree of minimum degree 2, calls insert() with the keys 1..MaxFill, taking
\* the smallest and the largest key still to do in turn (three levels, with
\* an internal node of two keys on either side), and then calls remove()
\* with any keys, stored or not, catching std::out_of_range.
Filling == [phase |-> "fill", vals |-> 1..MaxFill, todo |-> 1..MaxFill]
Draining == [phase |-> "drain", vals |-> 1..MaxFill, todo |-> {}]

InitFilled ==
  /\ \E _min_degree \in {2} :
       /\ degree = _min_degree
       /\ nodes = (1 :> Node(TRUE))
       /\ root = 1
       /\ last = [op |-> "construct", key |-> 0, status |-> "ok", ret |-> 0,
                  trace |-> <<>>]
       /\ num_keys = 0
       /\ pre = [nodes |-> <<>>, root |-> 0, num_keys |-> 0]
  /\ driver = Filling

\* The next key of the fill: the smallest and the largest still to do, in
\* turn.
FillKey ==
  LET lo == CHOOSE key \in driver.todo : \A other \in driver.todo : key <= other
      hi == CHOOSE key \in driver.todo : \A other \in driver.todo : key >= other
  IN IF Cardinality(driver.todo) % 2 = MaxFill % 2 THEN lo ELSE hi

FillInsert ==
  /\ driver.phase = "fill"
  /\ \E key \in {FillKey} :
       /\ Call_insert(key)
       /\ driver' = IF driver.todo = {key} THEN Draining
                    ELSE [driver EXCEPT !.todo = @ \ {key}]

RemoveFilled(key) ==
  /\ driver.phase = "drain"
  /\ \E g \in OutsideReads : Call_remove(key, g)
  /\ UNCHANGED driver

NextFilled ==
  \/ FillInsert
  \/ \E key \in 1..MaxFill : RemoveFilled(key)

SpecFilled == InitFilled /\ [][NextFilled]_vars

\* --------------------------------------------------- observation helpers
\* The keys under nd read in order: for each key of a node the keys under
\* the child left of it, the key, and last the keys under the last child.
\* This reads Node::keys and Node::children; it is not Btree::_walk, which
\* no function calls and which leaves out the child before the last key.
RECURSIVE InOrder(_, _)
RECURSIVE InOrderFrom(_, _, _)
InOrderFrom(h, nd, i) ==
  LET n == h[nd] IN
  IF is_leaf(n) THEN n.keys
  ELSE IF i > Len(n.keys) THEN
    (IF i <= Len(n.children) THEN InOrder(h, n.children[i]) ELSE <<>>)
  ELSE (IF i <= Len(n.children) THEN InOrder(h, n.children[i]) ELSE <<>>)
         \o <<n.keys[i]>> \o InOrderFrom(h, nd, i + 1)
InOrder(h, nd) == InOrderFrom(h, nd, 1)

StoredKeys == KeysUnder(nodes, root)
PreKeys == KeysUnder(pre.nodes, pre.root)

NoAbort == last.op # "construct" => Alive

\* ------------------------------------------------------ shape observations
\* Depths at which the nodes flagged as leaves sit below nd (nd at depth d).
RECURSIVE LeafDepths(_, _, _)
LeafDepths(h, nd, d) ==
  (IF is_leaf(h[nd]) THEN {d} ELSE {})
    \cup UNION {LeafDepths(h, h[nd].children[i], d + 1) : i \in 1..Len(h[nd].children)}

\* Number of levels of the tree under nd, along its first children.
RECURSIVE Levels(_, _)
Levels(h, nd) ==
  IF h[nd].children = <<>> THEN 1 ELSE 1 + Levels(h, h[nd].children[1])

StrictlyAscending(seq) == \A i \in 1..(Len(seq) - 1) : seq[i] < seq[i + 1]

\* Every key under children[i] lies strictly between keys[i-1] and keys[i].
SeparatorOrdering(h, nd) ==
  LET n == h[nd] IN
  \A i \in 0..(Len(n.children) - 1) :
    \A k \in KeysUnder(h, At(n.children, i)) :
      /\ i > 0 /\ i - 1 < Len(n.keys) => At(n.keys, i - 1) < k
      /\ i < Len(n.keys) => k < At(n.keys, i)

SearchFinds(k) ==
  LET r == search(Current, k) IN r.status = "ok" /\ r.ret = k
SearchMisses(k) == search(Current, k).status = "out_of_range"

Called(op) == last.op = op /\ Alive

\* ------------------------------------------------------------------ C1
\* C1: get_size() equals the number of distinct keys stored in the tree.
C1_SizeIsNumberOfStoredKeys ==
  Alive => num_keys = Cardinality(StoredKeys)

\* ------------------------------------------------------------------ C2
\* C2: an insert of a key that is already stored leaves get_size() as it was.
C2_DuplicateInsertKeepsSize ==
  (Called("insert") /\ last.key \in PreKeys) => num_keys = pre.num_keys

\* ------------------------------------------------------------------ C3
\* C3: after every public operation the in-order traversal is strictly
\* ascending: keys are strictly ascending inside each node, every key under
\* children[i] lies strictly between keys[i-1] and keys[i] of its parent, and
\* no key occurs twice in the tree.
C3_StrictlyOrdered ==
  Alive =>
    /\ StrictlyAscending(InOrder(nodes, root))
    /\ \A nd \in DOMAIN nodes : StrictlyAscending(nodes[nd].keys)
    /\ \A nd \in DOMAIN nodes : SeparatorOrdering(nodes, nd)
    /\ Len(InOrder(nodes, root)) = Cardinality(StoredKeys)

\* A remove that failed at a leaf after it had rebalanced nodes on the way.
C3_Witness ==
  /\ Called("remove") /\ last.status = "out_of_range"
  /\ nodes # pre.nodes
  /\ Levels(nodes, root) >= 2

\* ------------------------------------------------------------------ C4
\* C4: after every public operation every non-root node holds between t-1
\* and 2t-1 keys and the root at most 2t-1, for t = 2 and for larger t.
C4_KeyCountBounds ==
  Alive =>
    \A nd \in DOMAIN nodes :
      /\ Len(nodes[nd].keys) <= 2 * degree - 1
      /\ nd # root => Len(nodes[nd].keys) >= degree - 1

\* With t = 3, a remove has borrowed a key through the root and left a
\* node with exactly t-1 keys.
C4_Witness ==
  /\ Called("remove") /\ last.status = "ok"
  /\ degree = 3
  /\ Levels(nodes, root) = 2
  /\ root = pre.root
  /\ Len(nodes[root].keys) = Len(pre.nodes[root].keys)
  /\ nodes[root].keys # pre.nodes[root].keys
  /\ \E nd \in DOMAIN nodes : nd # root /\ get_num_keys(nodes[nd]) = degree - 1

\* ------------------------------------------------------------------ C5
\* C5: after every public operation all leaves are at the same depth.
C5_LeavesAtSameDepth ==
  Alive => Cardinality(LeafDepths(nodes, root, 0)) = 1

\* Root growth above an internal root has just made a tree of three levels.
C5_Witness ==
  /\ Called("insert")
  /\ Levels(pre.nodes, pre.root) = 2
  /\ Levels(nodes, root) = 3

\* ------------------------------------------------------------------ C6
\* C6: after every public operation every internal node with k keys has
\* exactly k+1 children and every leaf has no children.
C6_ChildCount ==
  Alive =>
    \A nd \in DOMAIN nodes :
      IF is_leaf(nodes[nd]) THEN Len(nodes[nd].children) = 0
      ELSE Len(nodes[nd].children) = get_num_keys(nodes[nd]) + 1

\* A remove has merged internal nodes: the root of a tree of three levels
\* went away and the new root is an internal node with internal children.
C6_Witness ==
  /\ Called("remove")
  /\ Levels(pre.nodes, pre.root) = 3
  /\ Levels(nodes, root) = 2
  /\ degree = 2

\* ------------------------------------------------------------------ C7
\* C7: the root has 0 keys only when it is a leaf and get_size() = 0.
C7_EmptyRootOnlyWhenEmpty ==
  Alive =>
    (get_num_keys(nodes[root]) = 0 => is_leaf(nodes[root]) /\ num_keys = 0)

\* ------------------------------------------------------------------ C8
\* C8: search(k) returns k if and only if k is stored, and otherwise throws
\* std::out_of_range.
C8_SearchIffStored ==
  Called("search") =>
    /\ last.status \in {"ok", "out_of_range"}
    /\ last.status = "ok" <=> last.key \in StoredKeys
    /\ last.status = "ok" => last.ret = last.key

\* A miss in a tree of several levels for a key that lies between two keys
\* of one leaf.
C8_Witness ==
  /\ Called("search") /\ last.status = "out_of_range"
  /\ Levels(nodes, root) >= 2
  /\ \E nd \in DOMAIN nodes :
       /\ is_leaf(nodes[nd])
       /\ Len(nodes[nd].keys) >= 2
       /\ Front(nodes[nd].keys) < last.key
       /\ last.key < Back(nodes[nd].keys)

\* ------------------------------------------------------------------ C9
\* C9: insert(k) never fails and leaves the stored key set equal to the
\* former set plus k, and search(k) returns k right after it.
C9_InsertIsSetInsert ==
  last.op = "insert" =>
    /\ last.status = "ok"
    /\ StoredKeys = PreKeys \cup {last.key}
    /\ SearchFinds(last.key)

\* An insert of a new key that split a full child on the way down.
C9_Witness ==
  /\ Called("insert")
  /\ last.key \notin PreKeys
  /\ Levels(pre.nodes, pre.root) >= 2
  /\ Levels(nodes, root) = Levels(pre.nodes, pre.root)
  /\ Cardinality(DOMAIN nodes) > Cardinality(DOMAIN pre.nodes)

\* ----------------------------------------------------------------- C10
\* C10: remove(k) of a stored key k succeeds, leaves the stored key set equal
\* to the former set minus k with every other key still found by search,
\* decrements size by exactly 1, and search(k) throws afterwards.
C10_RemoveIsSetRemove ==
  (last.op = "remove" /\ last.key \in PreKeys) =>
    /\ last.status = "ok"
    /\ StoredKeys = PreKeys \ {last.key}
    /\ num_keys = pre.num_keys - 1
    /\ \A k \in StoredKeys : SearchFinds(k)
    /\ SearchMisses(last.key)

\* A remove of a key that sat in an internal node.
C10_Witness ==
  /\ Called("remove") /\ last.status = "ok"
  /\ \E nd \in DOMAIN pre.nodes :
       /\ ~is_leaf(pre.nodes[nd])
       /\ \E i \in 1..Len(pre.nodes[nd].keys) : pre.nodes[nd].keys[i] = last.key

\* ----------------------------------------------------------------- C11
\* C11: on a non-empty tree remove(k) of a key k that is not stored throws
\* std::out_of_range, and get_size() and the set of stored keys are what they
\* were before the call, also when the descent borrowed, merged or shrank
\* the root.
C11_FailedRemoveKeepsKeys ==
  (last.op = "remove" /\ last.key \notin PreKeys /\ PreKeys # {}) =>
    /\ last.status = "out_of_range"
    /\ num_keys = pre.num_keys
    /\ StoredKeys = PreKeys

\* A failed remove whose descent merged the two children of the root and
\* shrank the root.
C11_Witness ==
  /\ Called("remove") /\ last.status = "out_of_range"
  /\ PreKeys # {}
  /\ root # pre.root
  /\ Levels(nodes, root) = Levels(pre.nodes, pre.root) - 1

\* ----------------------------------------------------------------- C12
\* Whether the descent of remove(key) from nd steps into a child that holds
\* exactly degree-1 keys, for a key stored in no node on the way.
RECURSIVE DescentMeetsThinChild(_, _, _)
DescentMeetsThinChild(h, nd, key) ==
  LET n == h[nd] IN
  IF is_leaf(n) THEN FALSE
  ELSE LET c == At(n.children, DescendIdx(n.keys, key)) IN
       \/ get_num_keys(h[c]) = degree - 1
       \/ DescentMeetsThinChild(h, c, key)

FailedRemove ==
  last.op = "remove" /\ last.key \notin PreKeys

\* C12 as stated: a remove of a key that is not stored throws and leaves the
\* size and the node structure (keys per node, children lists, root) as they
\* were.
C12_FailedRemoveKeepsShape ==
  FailedRemove =>
    /\ last.status = "out_of_range"
    /\ num_keys = pre.num_keys
    /\ nodes = pre.nodes
    /\ root = pre.root

\* C12 amended: a remove of a key that is not stored throws and leaves the
\* size and the in-order sequence of keys as they were; the node structure is
\* as it was when the descent met no child with exactly t-1 keys, and else a
\* borrow, merge or root shrink has changed it, without adding a node or a
\* level.
C12_FailedRemoveKeepsContents ==
  FailedRemove =>
    /\ last.status = "out_of_range"
    /\ num_keys = pre.num_keys
    /\ InOrder(nodes, root) = InOrder(pre.nodes, pre.root)
    /\ Cardinality(DOMAIN nodes) <= Cardinality(DOMAIN pre.nodes)
    /\ Levels(nodes, root) <= Levels(pre.nodes, pre.root)
    /\ IF DescentMeetsThinChild(pre.nodes, pre.root, last.key)
         THEN nodes # pre.nodes
         ELSE nodes = pre.nodes /\ root = pre.root

\* A failed remove that borrowed a key from a sibling on the way down: the
\* nodes are the same ones, with other keys.
C12_Witness ==
  /\ FailedRemove /\ Alive
  /\ DOMAIN nodes = DOMAIN pre.nodes
  /\ root = pre.root
  /\ nodes # pre.nodes

\* ----------------------------------------------------------------- C13
\* The events of the last operation that are calls of the helper fn.
CallsOf(fn) == {i \in DOMAIN last.trace : last.trace[i].fn = fn}

\* The reads of keys.back() / keys.front() the last operation made on a node
\* that held no key.
ReadsOfNoKey ==
  {i \in DOMAIN last.trace :
     /\ last.trace[i].fn \in {"keys.back", "keys.front"}
     /\ last.trace[i].num_keys = 0}

\* C13: remove(k) on an empty tree throws std::out_of_range without reading
\* a key of the empty root, and leaves the tree an empty leaf root with the
\* size unchanged.
C13_EmptyRemoveReadsNoKey ==
  (last.op = "remove" /\ pre.nodes[pre.root].keys = <<>>) =>
    /\ last.status = "out_of_range"
    /\ ReadsOfNoKey = {}
    /\ nodes = pre.nodes /\ root = pre.root
    /\ num_keys = pre.num_keys

\* ----------------------------------------------------------------- C18
\* C18: during an insert every node _vacant_insert is called on holds at
\* most 2t-2 keys at the call, and no assertion fails.
C18_InsertDescendsIntoNonFull ==
  last.op = "insert" =>
    /\ last.status = "ok"
    /\ CallsOf("_vacant_insert") # {}
    /\ \A i \in CallsOf("_vacant_insert") :
         last.trace[i].num_keys <= 2 * degree - 2

\* An insert that met a full child below the root, split it and went on into
\* one of the halves.
C18_Witness ==
  /\ Called("insert")
  /\ root = pre.root
  /\ Cardinality(DOMAIN nodes) = Cardinality(DOMAIN pre.nodes) + 1
  /\ \E i \in CallsOf("_vacant_insert") :
       ~last.trace[i].is_root /\ last.trace[i].num_keys = degree - 1

\* ----------------------------------------------------------------- C19
\* C19: during a remove every node other than the root that _remove is
\* called on holds at least t keys at the call, no node other than the root
\* is left with fewer than t-1 keys, and no assertion fails.
C19_RemoveDescendsIntoThickened ==
  last.op = "remove" =>
    /\ last.status # "assert"
    /\ CallsOf("_remove") # {}
    /\ \A i \in CallsOf("_remove") :
         last.trace[i].is_root \/ last.trace[i].num_keys >= degree
    /\ \A i \in DOMAIN nodes :
         i # root => get_num_keys(nodes[i]) >= degree - 1

\* A remove of a key of an internal root that went on to remove the
\* predecessor or successor from a child holding exactly t keys.
C19_Witness ==
  /\ Called("remove") /\ last.status = "ok"
  /\ last.key \in {At(pre.nodes[pre.root].keys, j) :
                     j \in 0..(Len(pre.nodes[pre.root].keys) - 1)}
  /\ ~pre.nodes[pre.root].leaf_status
  /\ \E i \in CallsOf("_remove") :
       ~last.trace[i].is_root /\ last.trace[i].num_keys = degree

\* ----------------------------------------------------------------- C14
\* What construction with a minimum degree of at least 2 yields: a root that
\* is a leaf without keys, and size 0.
ConstructedEmpty ==
  /\ last.status = "ok"
  /\ DOMAIN nodes = {root}
  /\ is_leaf(nodes[root]) /\ nodes[root].keys = <<>>
  /\ nodes[root].children = <<>>
  /\ num_keys = 0

\* C14 as stated: construction with t < 2 reports an invalid-argument error
\* to the caller and yields no tree; construction with t >= 2 yields an empty
\* leaf root and size 0.
C14_RejectsWithInvalidArgument ==
  last.op = "construct" =>
    IF degree < 2
      THEN last.status = "invalid_argument" /\ nodes = <<>>
      ELSE ConstructedEmpty

\* C14 amended: construction with t < 2 fails assert(degree >= 2), which ends
\* the program: nothing is reported to the caller, there is no tree and no
\* operation ever runs on one; construction with t >= 2 yields an empty leaf
\* root and size 0.
C14_ConstructAssertsDegree ==
  /\ last.op = "construct" =>
       IF degree < 2
         THEN last.status = "assert" /\ nodes = <<>>
         ELSE ConstructedEmpty
  /\ degree < 2 => last.op = "construct" /\ ~Alive

\* A construction with minimum degree 1.
C14_Witness ==
  degree = 1 /\ last.op = "construct" /\ last.status = "assert"

\* ----------------------------------------------------------------- C16
\* The last operation inserted a key above every key of a tree that was a
\* single leaf (as each insert of an ascending run from the empty tree is,
\* up to the 2t-th).
AscendingIntoLeafRoot ==
  /\ last.op = "insert"
  /\ is_leaf(pre.nodes[pre.root])
  /\ \A j \in 1..Len(pre.nodes[pre.root].keys) :
       pre.nodes[pre.root].keys[j] < last.key

\* C16: an ascending key inserted into a leaf root with fewer than 2t-1 keys
\* is appended to it, so 2t-1 ascending keys fill the root; inserted into a
\* full leaf root it grows the root: the tree has depth 2, the root holds only
\* the former median, its left child the t-1 smaller keys and its right child
\* the t-1 larger keys followed by the new key.
C16_AscendingFillThenGrow ==
  AscendingIntoLeafRoot =>
    LET old == pre.nodes[pre.root].keys IN
    /\ last.status = "ok"
    /\ IF Len(old) < 2 * degree - 1
         THEN /\ DOMAIN nodes = {root}
              /\ is_leaf(nodes[root])
              /\ nodes[root].keys = Append(old, last.key)
         ELSE /\ Levels(nodes, root) = 2
              /\ nodes[root].keys = <<At(old, degree - 1)>>
              /\ Len(nodes[root].children) = 2
              /\ LET left == nodes[At(nodes[root].children, 0)]
                     right == nodes[At(nodes[root].children, 1)]
                 IN /\ is_leaf(left) /\ is_leaf(right)
                    /\ left.keys = SubSeq(old, 1, degree - 1)
                    /\ right.keys =
                         Append(SubSeq(old, degree + 1, 2 * degree - 1),
                                last.key)

\* The 2t-th key of an ascending run, for t = 3: the root was a leaf with
\* five keys and the tree now has two levels.
C16_Witness ==
  /\ AscendingIntoLeafRoot /\ Alive
  /\ degree = 3
  /\ Len(pre.nodes[pre.root].keys) = 2 * degree - 1
  /\ num_keys = 2 * degree
  /\ Levels(nodes, root) = 2

\* ----------------------------------------------------------------- C17
\* The root, before the last operation, was internal with a single key over
\* two children of t-1 keys each: whichever child a remove turns to, it
\* merges the two around the root's last key.
RootMergeDue ==
  LET r == pre.nodes[pre.root] IN
  /\ ~is_leaf(r)
  /\ get_num_keys(r) = 1
  /\ \A j \in 1..Len(r.children) :
       get_num_keys(pre.nodes[r.children[j]]) = degree - 1

\* C17: an insert adds one level exactly when the root was full at the call
\* (also when the key is already stored) and else leaves the depth as it was;
\* a remove takes one level away exactly when it merged the two children of
\* an internal root around its last key, and else leaves the depth as it was;
\* search and get_size leave the tree as it was.
C17_DepthChanges ==
  /\ last.op = "insert" =>
       /\ last.status = "ok"
       /\ Levels(nodes, root) =
            Levels(pre.nodes, pre.root)
              + (IF is_full(pre.nodes[pre.root]) THEN 1 ELSE 0)
  /\ last.op = "remove" =>
       /\ last.status # "assert"
       /\ Levels(nodes, root) =
            Levels(pre.nodes, pre.root) - (IF RootMergeDue THEN 1 ELSE 0)
  /\ last.op \in {"search", "get_size"} =>
       nodes = pre.nodes /\ root = pre.root

\* An insert of a key already stored, on a tree of two levels with a full
\* root: the tree has three levels and the same keys.
C17_Witness ==
  /\ Called("insert")
  /\ last.key \in PreKeys
  /\ Levels(pre.nodes, pre.root) = 2
  /\ Levels(nodes, root) = 3
  /\ StoredKeys = PreKeys

\* ----------------------------------------------------------------- C20
\* What one call of _vacant_split_child(c_idx), on record as e, did to the
\* parent (n, then n2), to the child y at c_idx (then y2) and what the new
\* sibling z is.
SplitAsSpecified(e) ==
  LET median == At(e.y.keys, degree - 1) IN
  /\ Len(e.n.keys) < 2 * degree - 1
  /\ Len(e.y.keys) = 2 * degree - 1
  /\ At(e.n.children, e.c_idx) = e.c1
  /\ Len(e.n2.keys) = Len(e.n.keys) + 1
  /\ Len(e.n2.children) = Len(e.n.children) + 1
  /\ e.n2.keys = EmplaceAt(e.n.keys, e.c_idx, median)
  /\ At(e.n2.children, e.c_idx) = e.c1
  /\ At(e.n2.children, e.c_idx + 1) = e.c2
  /\ \A j \in 0..(Len(e.n.children) - 1) :
       At(e.n2.children, IF j <= e.c_idx THEN j ELSE j + 1)
         = At(e.n.children, j)
  /\ e.c2 \notin DOMAIN pre.nodes
  /\ e.y2.keys = SubSeq(e.y.keys, 1, degree - 1)
  /\ e.z.keys = SubSeq(e.y.keys, degree + 1, 2 * degree - 1)
  /\ e.y2.leaf_status = e.y.leaf_status
  /\ e.z.leaf_status = e.y.leaf_status
  /\ IF e.y.leaf_status
       THEN e.y2.children = <<>> /\ e.z.children = <<>>
       ELSE /\ e.y2.children = SubSeq(e.y.children, 1, degree)
            /\ e.z.children = SubSeq(e.y.children, degree + 1, 2 * degree)

\* C20: every call of _vacant_split_child(i) made by an insert, on a parent
\* that is not full and whose children[i] = y is full, gives the parent one
\* more key and one more child, with the former median of y at key index i,
\* y still children[i] with its first t-1 keys (and first t children), and the
\* new sibling z at children[i+1] with the upper t-1 keys of y (and its upper
\* t children) and the leaf status of y; no assertion fails.
C20_SplitChild ==
  last.op = "insert" =>
    /\ last.status = "ok"
    /\ \A i \in CallsOf("_vacant_split_child") : SplitAsSpecified(last.trace[i])

\* An insert that split a full internal node: the new sibling took over t of
\* its children.
C20_Witness ==
  /\ Called("insert")
  /\ \E i \in CallsOf("_vacant_split_child") :
       /\ ~last.trace[i].y.leaf_status
       /\ Len(last.trace[i].z.children) = degree
       /\ Len(last.trace[i].y2.children) = degree

\* ----------------------------------------------------------------- C15
\* C15: in main(), which inserts a set of distinct keys into an empty tree,
\* searches each and removes each once, each loop in any order: no insert
\* fails, every search returns its key, every remove succeeds, and after the
\* last remove the tree is an empty leaf root and get_size() returns 0.
C15_FillThenDrain ==
  /\ last.op = "insert" => last.status = "ok"
  /\ last.op = "search" => last.status = "ok" /\ last.ret = last.key
  /\ last.op = "remove" => last.status = "ok"
  /\ driver.phase = "search" => StoredKeys = driver.vals
  /\ driver.phase \in {"print", "end"} =>
       /\ DOMAIN nodes = {root}
       /\ is_leaf(nodes[root])
       /\ nodes[root].keys = <<>>
       /\ num_keys = 0
  /\ driver.phase = "end" => last.op = "get_size" /\ last.ret = 0

\* main() has run to its end on MaxKey values: the tree grew a level and
\* lost it again.
C15_Witness ==
  /\ driver.phase = "end"
  /\ driver.vals = Keys
  /\ last.op = "get_size" /\ last.status = "ok"

\* ----------------------------------------------------------------- C27
\* C27: every call of _vacant_insert_key_in_node, on a node that is not full
\* and has strictly ascending keys, returns the 0-based position at which the
\* key sits in the node's keys after the call, and leaves the keys strictly
\* ascending, one longer only when the key was new.
C27_ReturnsInsertionIndex ==
  \A i \in CallsOf("_vacant_insert_key_in_node") :
    LET e == last.trace[i]
        was_new == \A j \in 1..Len(e.before) : e.before[j] # e.key
    IN
    (Len(e.before) < 2 * degree - 1 /\ StrictlyAscending(e.before)) =>
      /\ e.index < Len(e.after)
      /\ At(e.after, e.index) = e.key
      /\ StrictlyAscending(e.after)
      /\ Len(e.after) = Len(e.before) + (IF was_new THEN 1 ELSE 0)

\* ----------------------------------------------------------------- C26
\* C26: search(k), whether it returns the key or throws, and get_size() leave
\* the root, every node's keys and children, and the size counter as they
\* were.
C26_SearchAndSizeReadOnly ==
  last.op \in {"search", "get_size"} =>
    /\ last.status \in {"ok", "out_of_range"}
    /\ root = pre.root
    /\ DOMAIN nodes = DOMAIN pre.nodes
    /\ \A i \in DOMAIN nodes :
         /\ nodes[i].keys = pre.nodes[i].keys
         /\ nodes[i].children = pre.nodes[i].children
    /\ num_keys = pre.num_keys

\* A search that threw on a tree whose root is internal and has a child with
\* exactly t-1 keys on the way to where the key would be.
C26_Witness ==
  /\ Called("search") /\ last.status = "out_of_range"
  /\ ~is_leaf(pre.nodes[pre.root])
  /\ DescentMeetsThinChild(pre.nodes, pre.root, last.key)

\* ----------------------------------------------------------------- C21
\* What one call of _merge_nodes, on record as m, and the erase calls before
\* it, on record as u, did: L = y and R = z are the children of the parent
\* left and right of the key, with t-1 keys each and the same leaf status;
\* L got its keys, the key and the keys of R, and the children of both; the
\* parent lost the key and the reference to R.
MergeAsSpecified(u, m) ==
  /\ u.fn = "unlink"
  /\ At(u.n.children, u.kidx) = m.nd_y
  /\ At(u.n.children, u.kidx + 1) = m.nd_z
  /\ At(u.n.keys, u.kidx) = m.key
  /\ Len(m.y.keys) = degree - 1
  /\ Len(m.z.keys) = degree - 1
  /\ m.y.leaf_status = m.z.leaf_status
  /\ \A j \in 1..Len(m.y.keys) : m.y.keys[j] < m.key
  /\ \A j \in 1..Len(m.z.keys) : m.key < m.z.keys[j]
  /\ m.y2.keys = (m.y.keys \o <<m.key>>) \o m.z.keys
  /\ Len(m.y2.keys) = 2 * degree - 1
  /\ m.y2.children = m.y.children \o m.z.children
  /\ m.y2.leaf_status = m.y.leaf_status
  /\ Len(m.y2.children) = IF m.y.leaf_status THEN 0 ELSE 2 * degree
  /\ u.n2.keys = EraseAt(u.n.keys, u.kidx)
  /\ u.n2.children = EraseAt(u.n.children, u.kidx + 1)
  /\ \A j \in 1..Len(u.n2.children) : u.n2.children[j] # m.nd_z

\* C21: every merge made by a remove is of two adjacent siblings with t-1
\* keys each and the same leaf status, around the key between them, and gives
\* the left one all 2t-1 keys and all children while the parent loses the key
\* and the reference to the right one; no assertion fails.
C21_MergePrimitive ==
  last.op = "remove" =>
    /\ last.status # "assert"
    /\ \A i \in CallsOf("_merge_nodes") :
         i > 1 /\ MergeAsSpecified(last.trace[i - 1], last.trace[i])

\* A remove that merged two internal siblings.
C21_Witness ==
  /\ Called("remove")
  /\ \E i \in CallsOf("_merge_nodes") :
       /\ ~last.trace[i].y.leaf_status
       /\ Len(last.trace[i].y2.children) = 2 * degree

\* ----------------------------------------------------------------- C22
\* The number of keys of the child left (side = 0) or right (side = 1) of
\* the key at e.idx, for a call of _rm_key_from_internal_node on record as e.
Flank(e, side) == Len(e.kids[e.idx + 1 + side].keys)

\* The calls of _rm_key_from_internal_node of the last operation that found
\* both children next to the key with exactly t-1 keys.
BothFlanksThin ==
  {i \in CallsOf("_rm_key_from_internal_node") :
     /\ Flank(last.trace[i], 0) = degree - 1
     /\ Flank(last.trace[i], 1) = degree - 1}

\* C22: a remove of a key at position i of an internal node N with t-1 keys
\* in both children next to it merges the two children and the key into the
\* left one, and only then removes the key from the merged node; the right
\* child is no longer in the tree; when N was the root with a single key the
\* merged node is the new root and N is no longer in the tree, and else N
\* stays. Over the whole remove the tree lost one node per merge and one more
\* if the root was replaced.
C22_InternalRemoveMerges ==
  last.op = "remove" =>
    /\ last.status # "assert"
    /\ \A i \in BothFlanksThin :
         LET e == last.trace[i]
             nd_y == At(e.n.children, e.idx)
             nd_z == At(e.n.children, e.idx + 1)
         IN
         /\ At(e.n.keys, e.idx) = e.key
         /\ i + 3 <= Len(last.trace)
         /\ last.trace[i + 1].fn = "unlink"
         /\ last.trace[i + 1].nd = e.nd
         /\ last.trace[i + 1].kidx = e.idx
         /\ last.trace[i + 2].fn = "_merge_nodes"
         /\ last.trace[i + 2].nd_y = nd_y
         /\ last.trace[i + 2].nd_z = nd_z
         /\ last.trace[i + 2].key = e.key
         /\ last.trace[i + 3].fn = "_remove"
         /\ last.trace[i + 3].num_keys = 2 * degree - 1
         /\ nd_y \in DOMAIN nodes
         /\ nd_z \notin DOMAIN nodes
         /\ IF e.is_root /\ e.num_keys = 1
              THEN /\ root = nd_y
                   /\ last.trace[i + 3].is_root
                   /\ e.nd \notin DOMAIN nodes
              ELSE /\ e.nd \in DOMAIN nodes
                   /\ ~last.trace[i + 3].is_root
    /\ Cardinality(DOMAIN nodes) =
         Cardinality(DOMAIN pre.nodes)
           - Cardinality(CallsOf("_merge_nodes"))
           - (IF root # pre.root THEN 1 ELSE 0)

\* A remove of a key of an internal node below the root whose two children
\* next to the key had t-1 keys each.
C22_Witness ==
  /\ Called("remove") /\ last.status = "ok"
  /\ \E i \in BothFlanksThin : ~last.trace[i].is_root

\* ----------------------------------------------------------------- C23
\* The largest and the smallest of a non-empty set of keys.
Largest(S) == CHOOSE k \in S : \A other \in S : other <= k
Smallest(S) == CHOOSE k \in S : \A other \in S : k <= other

\* What one call of _rm_key_from_internal_node, on record as e = trace[i],
\* did: with at least t keys in children[idx] the key is replaced in N by the
\* largest key under children[idx], which is the key next below it in the
\* tree, and that key is removed from children[idx]; else with at least t
\* keys in children[idx+1] the same with the smallest key under it; else both
\* have t-1 keys and N loses the key for a merge.
ReplacedAsSpecified(i) ==
  LET e == last.trace[i]
      nd_y == At(e.n.children, e.idx)
      nd_z == At(e.n.children, e.idx + 1)
      nxt == last.trace[i + 1]
      below == {k \in KeysUnder(e.heap, nd_y) : TRUE}
      above == {k \in KeysUnder(e.heap, nd_z) : TRUE}
  IN
  /\ At(e.n.keys, e.idx) = e.key
  /\ i + 1 <= Len(last.trace)
  /\ IF Flank(e, 0) >= degree THEN
       /\ nxt.fn = "_remove" /\ nxt.nd = nd_y
       /\ nxt.key = Largest(below)
       /\ nxt.key < e.key
       /\ \A k \in PreKeys : ~(nxt.key < k /\ k < e.key)
       /\ nodes[e.nd].keys = SetAt(e.n.keys, e.idx, nxt.key)
     ELSE IF Flank(e, 1) >= degree THEN
       /\ nxt.fn = "_remove" /\ nxt.nd = nd_z
       /\ nxt.key = Smallest(above)
       /\ e.key < nxt.key
       /\ \A k \in PreKeys : ~(e.key < k /\ k < nxt.key)
       /\ nodes[e.nd].keys = SetAt(e.n.keys, e.idx, nxt.key)
     ELSE
       /\ Flank(e, 0) = degree - 1 /\ Flank(e, 1) = degree - 1
       /\ nxt.fn = "unlink" /\ nxt.nd = e.nd /\ nxt.kidx = e.idx

\* C23: every call of _rm_key_from_internal_node replaces the key by its
\* predecessor when children[idx] has at least t keys, else by its successor
\* when children[idx+1] has, and merges only when both have t-1; a remove that
\* gets there succeeds, and the key removed is the only key the tree loses.
C23_InternalRemoveReplaces ==
  (last.op = "remove" /\ CallsOf("_rm_key_from_internal_node") # {}) =>
    /\ last.status = "ok"
    /\ \A i \in CallsOf("_rm_key_from_internal_node") : ReplacedAsSpecified(i)
    /\ StoredKeys = PreKeys \ {last.key}

\* A remove of a key of the root of a tree of three levels that took the
\* successor from a leaf two levels below.
C23_Witness ==
  /\ Called("remove") /\ last.status = "ok"
  /\ \E i \in CallsOf("_rm_key_from_internal_node") :
       LET e == last.trace[i] IN
       /\ Flank(e, 0) < degree /\ Flank(e, 1) >= degree
       /\ ~e.kids[e.idx + 2].leaf_status

\* The child a call of _rm_from_internal_node_without_key on record is about
\* to descend into, and its left and right sibling where there is one.
HasLeft(e) == e.idx > 0
HasRight(e) == e.idx + 1 < Len(e.kids)
Child(e) == e.kids[e.idx + 1]
LeftOf(e) == e.kids[e.idx]
RightOf(e) == e.kids[e.idx + 2]

\* The borrow on record at b is the one from the given side that the call on
\* record at e asks for: one key goes from the sibling up into N and one from
\* N down into c, N keeps its number of keys and its children, c has t keys,
\* the sibling one fewer and at least t-1, and an internal sibling hands its
\* child next to c over to c, a leaf none.
BorrowAsSpecified(e, b, side) ==
  LET c == Child(e)
      sib == IF side = "left" THEN LeftOf(e) ELSE RightOf(e)
      kidx == IF side = "left" THEN e.idx - 1 ELSE e.idx
      up == IF side = "left" THEN Back(sib.keys) ELSE Front(sib.keys)
      rest == IF side = "left" THEN SubSeq(sib.keys, 1, Len(sib.keys) - 1)
              ELSE Tail(sib.keys)
  IN
  /\ b.fn = "borrow" /\ b.side = side /\ b.nd = e.nd /\ b.idx = e.idx
  /\ Len(b.n2.keys) = Len(e.n.keys)
  /\ b.n2.keys = SetAt(e.n.keys, kidx, up)
  /\ b.n2.children = e.n.children
  /\ Len(b.c2.keys) = degree
  /\ b.c2.keys = IF side = "left" THEN <<At(e.n.keys, kidx)>> \o c.keys
                 ELSE Append(c.keys, At(e.n.keys, kidx))
  /\ Len(b.sib2.keys) = Len(sib.keys) - 1
  /\ Len(b.sib2.keys) >= degree - 1
  /\ b.sib2.keys = rest
  /\ b.c2.leaf_status = c.leaf_status
  /\ b.sib2.leaf_status = sib.leaf_status
  /\ IF sib.leaf_status
       THEN /\ b.c2.children = c.children
            /\ b.sib2.children = sib.children
       ELSE /\ Len(b.c2.children) = Len(c.children) + 1
            /\ Len(b.sib2.children) = Len(sib.children) - 1
            /\ IF side = "left"
                 THEN /\ b.c2.children = <<Back(sib.children)>> \o c.children
                      /\ b.sib2.children =
                           SubSeq(sib.children, 1, Len(sib.children) - 1)
                 ELSE /\ b.c2.children =
                           Append(c.children, Front(sib.children))
                      /\ b.sib2.children = Tail(sib.children)

\* The call of _rm_from_internal_node_without_key on record at i found
\* children[idx] with t-1 keys and did what is specified for that: borrow
\* from the left sibling if there is one with at least t keys, else from the
\* right one if there is one with at least t keys, and then descend into the
\* child, which has t keys; else unlink and merge with the left sibling if
\* there is one, else with the right one.
ThickenedAsSpecified(i) ==
  LET e == last.trace[i]
      cn == At(e.n.children, e.idx)
  IN
  /\ i + 2 <= Len(last.trace)
  /\ IF HasLeft(e) /\ Len(LeftOf(e).keys) >= degree THEN
       /\ BorrowAsSpecified(e, last.trace[i + 1], "left")
       /\ last.trace[i + 2].fn = "_remove"
       /\ last.trace[i + 2].nd = cn
       /\ last.trace[i + 2].num_keys = degree
     ELSE IF HasRight(e) /\ Len(RightOf(e).keys) >= degree THEN
       /\ BorrowAsSpecified(e, last.trace[i + 1], "right")
       /\ last.trace[i + 2].fn = "_remove"
       /\ last.trace[i + 2].nd = cn
       /\ last.trace[i + 2].num_keys = degree
     ELSE
       /\ last.trace[i + 1].fn = "unlink"
       /\ last.trace[i + 1].nd = e.nd
       /\ last.trace[i + 2].fn = "_merge_nodes"
       /\ IF HasLeft(e)
            THEN /\ last.trace[i + 1].kidx = e.idx - 1
                 /\ last.trace[i + 2].nd_y = At(e.n.children, e.idx - 1)
                 /\ last.trace[i + 2].nd_z = cn
            ELSE /\ HasRight(e)
                 /\ last.trace[i + 1].kidx = e.idx
                 /\ last.trace[i + 2].nd_y = cn
                 /\ last.trace[i + 2].nd_z = At(e.n.children, e.idx + 1)

\* The calls of _rm_from_internal_node_without_key of the last operation
\* that found the child to descend into with exactly t-1 keys.
ThinDescents ==
  {i \in CallsOf("_rm_from_internal_node_without_key") :
     Len(Child(last.trace[i]).keys) = degree - 1}

\* C24: a remove that descends from an internal node N into a child c with
\* exactly t-1 keys borrows from the left sibling if there is one with at
\* least t keys, else from the right sibling if there is one with at least t
\* keys, and merges (with the left sibling if there is one, else the right)
\* only when neither lends; a borrow leaves N's number of keys as it was, c
\* with exactly t keys, the lender with one key fewer and at least t-1, and
\* moves exactly one child reference between internal siblings; borrows
\* happen nowhere else.
C24_ThinChildThickened ==
  last.op = "remove" =>
    /\ last.status # "assert"
    /\ \A i \in ThinDescents : ThickenedAsSpecified(i)
    /\ \A j \in CallsOf("borrow") : j - 1 \in ThinDescents

\* A remove that borrowed from an internal left sibling.
C24_Witness ==
  /\ Called("remove")
  /\ last.status = "ok"
  /\ \E i \in ThinDescents :
       /\ HasLeft(last.trace[i])
       /\ ~LeftOf(last.trace[i]).leaf_status
       /\ last.trace[i + 1].fn = "borrow"
       /\ last.trace[i + 1].side = "left"

\* The places, parent and position, at which node nd is referenced as a child.
ReferencesTo(nd) ==
  {pi \in (DOMAIN nodes) \X (1..MAX_CHILDREN + 1) :
     /\ pi[2] <= Len(nodes[pi[1]].children)
     /\ nodes[pi[1]].children[pi[2]] = nd}

\* C25: at the end of every public operation the nodes reachable from the
\* root form a strict tree: every node but the root is referenced exactly
\* once, by one parent at one position of its children, and the root not at
\* all; a node that a merge of the operation consumed and a root that a
\* remove replaced are no longer reachable from the root.
C25_StrictTree ==
  Alive =>
    /\ DOMAIN nodes = Reachable(nodes, root)
    /\ ReferencesTo(root) = {}
    /\ \A nd \in DOMAIN nodes \ {root} : Cardinality(ReferencesTo(nd)) = 1
    /\ \A i \in CallsOf("_merge_nodes") :
         last.trace[i].nd_z \notin Reachable(nodes, root)
    /\ (last.op = "remove" /\ root # pre.root) =>
         pre.root \notin Reachable(nodes, root)

\* A remove that merged the two children of a root with one key, so that the
\* root was replaced, and left a tree of at least two levels.
C25_Witness ==
  /\ Called("remove")
  /\ last.status = "ok"
  /\ CallsOf("_merge_nodes") # {}
  /\ root # pre.root
  /\ ~is_leaf(nodes[root])

====
